---------------------------- MODULE Spec2Model ----------------------------
(***************************************************************************)
(* Model of src/main.py: the /data endpoint (get_data), the per-asset      *)
(* lock registry (get_or_create_lock), the two upstream adapters           *)
(* (fetch_yahoo_finance, fetch_fred), the in-memory cache and the          *)
(* fire-and-forget backup task (backup_to_azure).                          *)
(*                                                                         *)
(* The service runs on one asyncio event loop (uvicorn.run, line 176).     *)
(* A coroutine keeps the loop from the moment it is scheduled until it     *)
(* suspends on an await that really waits, or ends; `loop` names the       *)
(* coroutine that is on the event-loop thread.  The positions of get_data  *)
(* are kept apart so that the states inside one run are visible.           *)
(***************************************************************************)
EXTENDS Integers, Sequences, FiniteSets, TLC

\* ---------------------------------------------------------------- bounds
NumRequests == 2        \* requests the clients send
MaxDate == 3            \* calendar days 1..MaxDate
MaxVal == 2             \* distinct observation values 1..MaxVal

Reqs == 1..NumRequests
Dates == 1..MaxDate
Values == 1..MaxVal

\* asset ids are strings; written as sequences of characters so that the
\* prefix test of is_macro_metric can be computed
AssetIds == { <<"M", "_", "C">>, <<"M", "A">> }

\* a start_date / end_date query string: a day, or text strptime rejects
BadDate == 0
DateStrings == Dates \cup {BadDate}

VARIABLES
    cache,          \* line 28: asset_id -> DataFrame (a sequence of rows)
    asset_locks,    \* line 29: asset_id -> lock object (an index of `locks`)
    locks,          \* the asyncio.Lock objects created so far
    cache_lock,     \* line 30: TRUE while the registry lock is held
    loop,           \* the coroutine on the event-loop thread
    pc,             \* position of each request in get_data
    asset_id, start_date, end_date,   \* the query parameters of each request
    lock,           \* line 130: the lock object get_data obtained
    needs_fetch,    \* lines 138-143
    fetch_error,    \* lines 54/57, 67/70: the ValueError the adapter raised ("": none)
    fetched_df,     \* lines 148/150
    adapter_calls,  \* the adapters each request invoked, in order
    status,         \* HTTP status of the response (0: none yet)
    result,         \* body of the 200 response (data_dict)
    cache0,         \* the cache as it was when get_data was entered
    failed0,        \* FailedKeys when get_data was entered
    tasks,          \* line 159: the backup tasks created, in order
    dispatched,     \* line 159: how many of them each running request created
    blob            \* the container: blob name -> payload

vars == << cache, asset_locks, locks, cache_lock, loop, pc, asset_id,
           start_date, end_date, lock, needs_fetch, fetch_error, fetched_df,
           adapter_calls, status, result, cache0, failed0, tasks, dispatched, blob >>

reqvars == << asset_id, start_date, end_date >>

\* ------------------------------------------------------------ data frames
Row(d, v) == [date |-> d, val |-> v]

\* the d-th smallest element of a finite set of integers
NthOf(S, i) == CHOOSE d \in S : Cardinality({x \in S : x < d}) = i - 1

\* the frame with index S (ascending) and the values f gives
Frame(S, f) == [i \in 1..Cardinality(S) |-> Row(NthOf(S, i), f[NthOf(S, i)])]

\* what a provider can return for the window [s, e]: rows in ascending date
\* order, one per date, every date inside the window; possibly no row at all
ProviderFrames(s, e) ==
    UNION { { Frame(S, f) : f \in [S -> Values] } : S \in SUBSET (s..e) }

NoFrame == << >>
ProviderOk(df) == [error |-> FALSE, rows |-> df]
ProviderError == [error |-> TRUE, rows |-> NoFrame]
ProviderResults(s, e) == { ProviderOk(df) : df \in ProviderFrames(s, e) } \cup {ProviderError}

IndexOf(df) == { df[i].date : i \in DOMAIN df }
\* cached_df.index.min() / .max(), lines 136-137
IndexMin(df) == CHOOSE m \in IndexOf(df) : \A d \in IndexOf(df) : m <= d
IndexMax(df) == CHOOSE m \in IndexOf(df) : \A d \in IndexOf(df) : m >= d

\* pd.concat([a, b]): the rows of a followed by the rows of b
Concat(a, b) == a \o b

\* DataFrame.drop_duplicates(): keeps the first of the rows whose COLUMN
\* values are equal; the index (the date) is not looked at
RECURSIVE DropDuplicates(_)
DropDuplicates(df) ==
    IF df = << >> THEN << >>
    ELSE LET n == Len(df)
             front == DropDuplicates(SubSeq(df, 1, n - 1))
         IN IF \E i \in 1..(n - 1) : df[i].val = df[n].val
            THEN front ELSE Append(front, df[n])

RECURSIVE Orderings(_)
Orderings(S) ==
    IF S = {} THEN { << >> }
    ELSE UNION { { <<x>> \o p : p \in Orderings(S \ {x}) } : x \in S }

\* DataFrame.sort_index(): the rows in ascending index order.  The default
\* sort is not stable, so rows with equal dates come out in any order.
RECURSIVE SortFrom(_, _)
SortFrom(df, d) ==
    IF d > MaxDate THEN { << >> }
    ELSE LET here == { i \in DOMAIN df : df[i].date = d }
         IN { [j \in 1..Len(o) |-> df[o[j]]] \o rest :
                 o \in Orderings(here), rest \in SortFrom(df, d + 1) }
SortIndex(df) == SortFrom(df, 1)


\* ------------------------------------------------------------- dictionaries
EmptyDict == << >>
Put(dict, k, v) == [x \in (DOMAIN dict) \cup {k} |-> IF x = k THEN v ELSE dict[x]]

\* ---------------------------------------------------------- pure functions
\* the prefix test on the first character only
is_macro_metric_initial(id) == Len(id) >= 1 /\ id[1] = "M"

\* line 43: asset_id.startswith("M_")
is_macro_metric(id) == Len(id) >= 2 /\ id[1] = "M" /\ id[2] = "_"

\* lines 123-124: datetime.strptime(text, "%Y-%m-%d").date()
Strptime(text) ==
    IF text \in Dates THEN [error |-> FALSE, date |-> text]
    ELSE [error |-> TRUE, date |-> 0]

\* the validation with line 125 written `>=`: equal dates rejected too
InvalidRangeStrict(sd, ed) ==
    \/ Strptime(sd).error
    \/ Strptime(ed).error
    \/ Strptime(sd).date >= Strptime(ed).date

\* the keys whose most recent backup task ended in the except branch
\* (lines 98-99)
FailedKeys(ts) ==
    { k \in AssetIds :
        \E i \in DOMAIN ts :
            /\ ts[i].asset_id = k
            /\ ts[i].st = "failed"
            /\ \A j \in DOMAIN ts : j > i => ts[j].asset_id # k }

\* lines 122-128: TRUE when the request is answered 400
InvalidRange(sd, ed) ==
    \/ Strptime(sd).error
    \/ Strptime(ed).error
    \/ Strptime(sd).date > Strptime(ed).date

\* the coverage test with the bounds compared the wrong way (<=, >=)
NeedsFetchInclusive(c, id, start_dt, end_dt) ==
    IF id \in DOMAIN c
    THEN start_dt <= IndexMin(c[id]) \/ end_dt >= IndexMax(c[id])
    ELSE TRUE

\* lines 134-143
NeedsFetch(c, id, start_dt, end_dt) ==
    IF id \in DOMAIN c
    THEN LET available_start == IndexMin(c[id])
             available_end == IndexMax(c[id])
         IN start_dt < available_start \/ end_dt > available_end
    ELSE TRUE

\* lines 53-57 and 66-70: the adapter raises ValueError when the provider
\* call raised or returned an empty frame
AdapterRaises(h) == h.error \/ h.rows = NoFrame

\* lines 54, 57 / 67, 70: what the ValueError is about
ErrorOf(h) == IF h.error THEN "provider error" ELSE "no data found"

\* line 147-150: the adapter get_data awaits
AdapterFor(id) == IF is_macro_metric(id) THEN "fetch_fred" ELSE "fetch_yahoo_finance"

\* lines 153-156: the frames the cache entry can become
Merged(c, id, df) ==
    IF id \in DOMAIN c
    THEN SortIndex(DropDuplicates(Concat(c[id], df)))
    ELSE {df}

\* the mask with the end date left out
InMaskOpenEnd(row, start_dt, end_dt) == row.date >= start_dt /\ row.date < end_dt

\* line 163: the mask of one row
InMask(row, start_dt, end_dt) == row.date >= start_dt /\ row.date <= end_dt

\* lines 162-164
Slice(df, start_dt, end_dt) ==
    SelectSeq(df, LAMBDA row : InMask(row, start_dt, end_dt))

\* line 170: DataFrame.to_dict(orient="split")
ToDictSplit(df) ==
    [index |-> [i \in DOMAIN df |-> df[i].date],
     columns |-> <<"val">>,
     data |-> [i \in DOMAIN df |-> <<df[i].val>>]]

\* lines 79-81: DataFrame.to_csv(): a header line, then one line per row
ToCsv(df) == << <<"Date", "val">> >> \o [i \in DOMAIN df |-> <<df[i].date, df[i].val>>]
\* lines 84-87
Gzip(bytes) == [gzip |-> bytes]
\* line 90
BlobName(id) == id \o <<".csv.gz">>

\* ------------------------------------------------------------------ state
NoResult == [index |-> << >>, columns |-> << >>, data |-> << >>]
NewLock == [locked |-> FALSE, waiters |-> << >>]
Idle == 0

Init ==
    /\ cache = EmptyDict
    /\ asset_locks = EmptyDict
    /\ locks = << >>
    /\ cache_lock = FALSE
    /\ loop = Idle
    /\ pc = [r \in Reqs |-> "init"]
    /\ asset_id = [r \in Reqs |-> << >>]
    /\ start_date = [r \in Reqs |-> BadDate]
    /\ end_date = [r \in Reqs |-> BadDate]
    /\ lock = [r \in Reqs |-> 0]
    /\ needs_fetch = [r \in Reqs |-> FALSE]
    /\ fetch_error = [r \in Reqs |-> ""]
    /\ fetched_df = [r \in Reqs |-> NoFrame]
    /\ adapter_calls = [r \in Reqs |-> << >>]
    /\ status = [r \in Reqs |-> 0]
    /\ result = [r \in Reqs |-> NoResult]
    /\ cache0 = [r \in Reqs |-> EmptyDict]
    /\ failed0 = [r \in Reqs |-> {}]
    /\ tasks = << >>
    /\ dispatched = [r \in Reqs |-> 0]
    /\ blob = EmptyDict

start_dt(r) == Strptime(start_date[r]).date
end_dt(r) == Strptime(end_date[r]).date

\* a client sends GET /data?asset_id=..&start_date=..&end_date=..
\* (requests are numbered in the order they are sent)
Arrive(r, id, sd, ed) ==
    /\ pc[r] = "init"
    /\ \A q \in Reqs : q < r => pc[q] # "init"
    /\ asset_id' = [asset_id EXCEPT ![r] = id]
    /\ start_date' = [start_date EXCEPT ![r] = sd]
    /\ end_date' = [end_date EXCEPT ![r] = ed]
    /\ pc' = [pc EXCEPT ![r] = "arrived"]
    /\ UNCHANGED << cache, asset_locks, locks, cache_lock, loop, lock,
                    needs_fetch, fetch_error, fetched_df, adapter_calls, status,
                    result, cache0, failed0, tasks, dispatched, blob >>

\* lines 121-130: the loop starts the handler; the dates are validated
get_data(r) ==
    /\ pc[r] = "arrived"
    /\ loop = Idle
    /\ IF InvalidRange(start_date[r], end_date[r])
       THEN /\ status' = [status EXCEPT ![r] = 400]
            /\ pc' = [pc EXCEPT ![r] = "done"]
            /\ loop' = Idle
            /\ start_date' = [start_date EXCEPT ![r] = BadDate]
            /\ end_date' = [end_date EXCEPT ![r] = BadDate]
            /\ cache0' = cache0
            /\ failed0' = failed0
       ELSE /\ status' = status
            /\ pc' = [pc EXCEPT ![r] = "get_lock"]
            /\ loop' = r
            /\ UNCHANGED << start_date, end_date >>
            /\ cache0' = [cache0 EXCEPT ![r] = cache]
            /\ failed0' = [failed0 EXCEPT ![r] = FailedKeys(tasks)]
    /\ UNCHANGED << cache, asset_locks, locks, cache_lock, asset_id, lock,
                    needs_fetch, fetch_error, fetched_df, adapter_calls, result,
                    tasks, dispatched, blob >>

\* line 106: async with cache_lock (entry)
enter_cache_lock(r) ==
    /\ pc[r] = "get_lock"
    /\ loop = r
    /\ ~cache_lock
    /\ cache_lock' = TRUE
    /\ pc' = [pc EXCEPT ![r] = "registry"]
    /\ UNCHANGED << cache, asset_locks, locks, loop, reqvars, lock,
                    needs_fetch, fetch_error, fetched_df, adapter_calls, status,
                    result, cache0, failed0, tasks, dispatched, blob >>

\* get_or_create_lock without the membership test of line 107: a new lock
\* for every call
get_or_create_lock_always_new(r) ==
    /\ pc[r] = "registry"
    /\ loop = r
    /\ locks' = Append(locks, NewLock)
    /\ asset_locks' = Put(asset_locks, asset_id[r], Len(locks) + 1)
    /\ lock' = [lock EXCEPT ![r] = asset_locks'[asset_id[r]]]
    /\ cache_lock' = FALSE
    /\ pc' = [pc EXCEPT ![r] = "acquire"]
    /\ UNCHANGED << cache, loop, reqvars, needs_fetch, fetch_error, fetched_df,
                    adapter_calls, status, result, cache0, failed0, tasks, dispatched, blob >>

\* lines 107-109, and the exit of async with cache_lock
get_or_create_lock(r) ==
    /\ pc[r] = "registry"
    /\ loop = r
    /\ IF asset_id[r] \notin DOMAIN asset_locks
       THEN /\ locks' = Append(locks, NewLock)
            /\ asset_locks' = Put(asset_locks, asset_id[r], Len(locks) + 1)
       ELSE UNCHANGED << locks, asset_locks >>
    /\ lock' = [lock EXCEPT ![r] = asset_locks'[asset_id[r]]]
    /\ cache_lock' = FALSE
    /\ pc' = [pc EXCEPT ![r] = "acquire"]
    /\ UNCHANGED << cache, loop, reqvars, needs_fetch, fetch_error, fetched_df,
                    adapter_calls, status, result, cache0, failed0, tasks, dispatched, blob >>

\* line 132: async with lock (entry).  asyncio.Lock.acquire() takes a free
\* lock that nobody waits for at once; otherwise the coroutine queues up and
\* gives the loop away.
acquire_lock(r) ==
    /\ pc[r] = "acquire"
    /\ loop = r
    /\ LET l == lock[r] IN
       IF ~locks[l].locked /\ locks[l].waiters = << >>
       THEN /\ locks' = [locks EXCEPT ![l].locked = TRUE]
            /\ pc' = [pc EXCEPT ![r] = "check"]
            /\ loop' = r
       ELSE /\ locks' = [locks EXCEPT ![l].waiters = Append(@, r)]
            /\ pc' = [pc EXCEPT ![r] = "lock_wait"]
            /\ loop' = Idle
    /\ UNCHANGED << cache, asset_locks, cache_lock, reqvars, lock,
                    needs_fetch, fetch_error, fetched_df, adapter_calls, status,
                    result, cache0, failed0, tasks, dispatched, blob >>

\* line 132: the first waiter of a released lock is woken and takes it
lock_granted(r) ==
    /\ pc[r] = "lock_wait"
    /\ loop = Idle
    /\ LET l == lock[r] IN
       /\ ~locks[l].locked
       /\ Head(locks[l].waiters) = r
       /\ locks' = [locks EXCEPT ![l].locked = TRUE, ![l].waiters = Tail(@)]
    /\ pc' = [pc EXCEPT ![r] = "check"]
    /\ loop' = r
    /\ UNCHANGED << cache, asset_locks, cache_lock, reqvars, lock,
                    needs_fetch, fetch_error, fetched_df, adapter_calls, status,
                    result, cache0, failed0, tasks, dispatched, blob >>

\* lines 134-145
check_cache(r) ==
    /\ pc[r] = "check"
    /\ loop = r
    /\ LET nf == NeedsFetch(cache, asset_id[r], start_dt(r), end_dt(r)) IN
       /\ needs_fetch' = [needs_fetch EXCEPT ![r] = nf]
       /\ pc' = [pc EXCEPT ![r] = IF nf THEN "fetch" ELSE "slice"]
    /\ UNCHANGED << cache, asset_locks, locks, cache_lock, loop, reqvars,
                    lock, fetch_error, fetched_df, adapter_calls, status, result,
                    cache0, failed0, tasks, dispatched, blob >>

\* lines 147-150 with 51-52 / 65: the adapter is entered and calls the
\* provider library.  `suspends` says whether that call gives the loop away.
call_adapter(r, suspends) ==
    /\ pc[r] = "fetch"
    /\ loop = r
    /\ adapter_calls' = [adapter_calls EXCEPT ![r] = Append(@, AdapterFor(asset_id[r]))]
    /\ pc' = [pc EXCEPT ![r] = "fetching"]
    /\ loop' = IF suspends THEN Idle ELSE r
    /\ UNCHANGED << cache, asset_locks, locks, cache_lock, reqvars, lock,
                    needs_fetch, fetch_error, fetched_df, status, result, cache0, failed0,
                    tasks, dispatched, blob >>

\* ticker.history(...) and pdr.get_data_fred(...) are plain calls inside the
\* adapters (no await): the event-loop thread is inside the call until the
\* provider answers
fetch(r) == call_adapter(r, FALSE)

\* the same call made through an await that suspends get_data
fetch_suspending(r) == call_adapter(r, TRUE)

\* the adapter storing what the provider returned before it looks at it
adapter_returns_storing(r, h) ==
    /\ pc[r] = "fetching"
    /\ loop \in {r, Idle}
    /\ loop' = r
    /\ IF AdapterRaises(h)
       THEN /\ fetch_error' = [fetch_error EXCEPT ![r] = ErrorOf(h)]
            /\ status' = [status EXCEPT ![r] = 500]
            /\ pc' = [pc EXCEPT ![r] = "exit"]
            /\ fetched_df' = fetched_df
            /\ cache' = Put(cache, asset_id[r], h.rows)
       ELSE /\ fetch_error' = fetch_error
            /\ status' = status
            /\ pc' = [pc EXCEPT ![r] = "merge"]
            /\ fetched_df' = [fetched_df EXCEPT ![r] = h.rows]
            /\ cache' = cache
    /\ UNCHANGED << asset_locks, locks, cache_lock, reqvars, lock,
                    needs_fetch, adapter_calls, result, cache0, failed0, tasks,
                    dispatched, blob >>

\* lines 52-57 / 65-70 and 148/150: the provider call returns; the adapter
\* raises ValueError (nothing in get_data catches it: the response is 500) or
\* hands the frame to get_data
adapter_returns(r, h) ==
    /\ pc[r] = "fetching"
    /\ loop \in {r, Idle}
    /\ loop' = r
    /\ IF AdapterRaises(h)
       THEN /\ fetch_error' = [fetch_error EXCEPT ![r] = ErrorOf(h)]
            /\ status' = [status EXCEPT ![r] = 500]
            /\ pc' = [pc EXCEPT ![r] = "exit"]
            /\ fetched_df' = fetched_df
       ELSE /\ fetch_error' = fetch_error
            /\ status' = status
            /\ pc' = [pc EXCEPT ![r] = "merge"]
            /\ fetched_df' = [fetched_df EXCEPT ![r] = h.rows]
    /\ UNCHANGED << cache, asset_locks, locks, cache_lock, reqvars, lock,
                    needs_fetch, adapter_calls, result, cache0, failed0, tasks, dispatched, blob >>

\* the task created before the entry is assigned: it carries the entry as it
\* was before the merge
CreateTaskPreMerge(ts, id, df) ==
    Append(ts, [asset_id |-> id,
                data |-> IF id \in DOMAIN cache THEN cache[id] ELSE df,
                st |-> "created"])

\* line 159: asyncio.create_task(backup_to_azure(asset_id, cache[asset_id]))
CreateTask(ts, id, df) == Append(ts, [asset_id |-> id, data |-> df, st |-> "created"])

\* lines 152-159: the cache entry is replaced and the backup task created
update_cache(r) ==
    /\ pc[r] = "merge"
    /\ loop = r
    /\ \E df \in Merged(cache, asset_id[r], fetched_df[r]) :
          /\ cache' = Put(cache, asset_id[r], df)
          /\ tasks' = CreateTask(tasks, asset_id[r], df)
    /\ dispatched' = [dispatched EXCEPT ![r] = @ + 1]
    /\ pc' = [pc EXCEPT ![r] = "slice"]
    /\ UNCHANGED << asset_locks, locks, cache_lock, loop, reqvars, lock,
                    needs_fetch, fetch_error, fetched_df, adapter_calls, status,
                    result, cache0, failed0, blob >>

\* lines 161-171
slice_cache(r) ==
    /\ pc[r] = "slice"
    /\ loop = r
    /\ LET result_df == Slice(cache[asset_id[r]], start_dt(r), end_dt(r)) IN
       IF result_df = NoFrame
       THEN /\ status' = [status EXCEPT ![r] = 404]
            /\ result' = result
       ELSE /\ status' = [status EXCEPT ![r] = 200]
            /\ result' = [result EXCEPT ![r] = ToDictSplit(result_df)]
    /\ pc' = [pc EXCEPT ![r] = "exit"]
    /\ UNCHANGED << cache, asset_locks, locks, cache_lock, loop, reqvars,
                    lock, needs_fetch, fetch_error, fetched_df, adapter_calls,
                    cache0, failed0, tasks, dispatched, blob >>

\* the lock released after the return only (acquire() and release() around
\* the body, no try/finally)
release_lock_on_return(r) ==
    /\ pc[r] = "exit"
    /\ loop = r
    /\ locks' = IF status[r] = 200
                THEN [locks EXCEPT ![lock[r]].locked = FALSE]
                ELSE locks
    /\ pc' = [pc EXCEPT ![r] = "done"]
    /\ loop' = Idle
    /\ lock' = [lock EXCEPT ![r] = 0]
    /\ needs_fetch' = [needs_fetch EXCEPT ![r] = FALSE]
    /\ fetch_error' = [fetch_error EXCEPT ![r] = ""]
    /\ fetched_df' = [fetched_df EXCEPT ![r] = NoFrame]
    /\ start_date' = [start_date EXCEPT ![r] = BadDate]
    /\ end_date' = [end_date EXCEPT ![r] = BadDate]
    /\ adapter_calls' = [adapter_calls EXCEPT ![r] = << >>]
    /\ result' = [result EXCEPT ![r] = NoResult]
    /\ cache0' = [cache0 EXCEPT ![r] = EmptyDict]
    /\ failed0' = [failed0 EXCEPT ![r] = {}]
    /\ dispatched' = [dispatched EXCEPT ![r] = 0]
    /\ UNCHANGED << cache, asset_locks, cache_lock, asset_id, status, tasks,
                    blob >>

\* line 132: the exit of async with lock, on return and on every exception;
\* the response goes out, the coroutine ends and its locals are gone
release_lock(r) ==
    /\ pc[r] = "exit"
    /\ loop = r
    /\ locks' = [locks EXCEPT ![lock[r]].locked = FALSE]
    /\ pc' = [pc EXCEPT ![r] = "done"]
    /\ loop' = Idle
    /\ lock' = [lock EXCEPT ![r] = 0]
    /\ needs_fetch' = [needs_fetch EXCEPT ![r] = FALSE]
    /\ fetch_error' = [fetch_error EXCEPT ![r] = ""]
    /\ fetched_df' = [fetched_df EXCEPT ![r] = NoFrame]
    /\ start_date' = [start_date EXCEPT ![r] = BadDate]
    /\ end_date' = [end_date EXCEPT ![r] = BadDate]
    /\ adapter_calls' = [adapter_calls EXCEPT ![r] = << >>]
    /\ result' = [result EXCEPT ![r] = NoResult]
    /\ cache0' = [cache0 EXCEPT ![r] = EmptyDict]
    /\ failed0' = [failed0 EXCEPT ![r] = {}]
    /\ dispatched' = [dispatched EXCEPT ![r] = 0]
    /\ UNCHANGED << cache, asset_locks, cache_lock, asset_id, status, tasks,
                    blob >>

\* lines 77-96: the loop runs the task: to_csv, gzip, then the upload is
\* handed to a thread and the task suspends; an exception ends the task
\* the backup that drops duplicate rows from the frame it was handed, in
\* place: the frame is the object the cache holds
backup_to_azure_inplace(i, ok) ==
    /\ i \in DOMAIN tasks
    /\ tasks[i].st = "created"
    /\ loop = Idle
    /\ tasks' = [tasks EXCEPT ![i] =
                   IF ok THEN [asset_id |-> @.asset_id,
                               data |-> Gzip(ToCsv(DropDuplicates(@.data))),
                               st |-> "uploading"]
                   ELSE [asset_id |-> @.asset_id, data |-> NoFrame, st |-> "failed"]]
    /\ cache' = IF tasks[i].asset_id \in DOMAIN cache
                   /\ cache[tasks[i].asset_id] = tasks[i].data
                THEN Put(cache, tasks[i].asset_id, DropDuplicates(tasks[i].data))
                ELSE cache
    /\ UNCHANGED << dispatched, asset_locks, locks, cache_lock, loop, pc, reqvars,
                    lock, needs_fetch, fetch_error, fetched_df, adapter_calls,
                    status, result, cache0, failed0, blob >>

backup_to_azure(i, ok) ==
    /\ i \in DOMAIN tasks
    /\ tasks[i].st = "created"
    /\ loop = Idle
    /\ tasks' = [tasks EXCEPT ![i] =
                   IF ok THEN [asset_id |-> @.asset_id,
                               data |-> Gzip(ToCsv(@.data)),
                               st |-> "uploading"]
                   ELSE [asset_id |-> @.asset_id, data |-> NoFrame, st |-> "failed"]]
    /\ UNCHANGED << dispatched, cache, asset_locks, locks, cache_lock, loop, pc, reqvars,
                    lock, needs_fetch, fetch_error, fetched_df, adapter_calls,
                    status, result, cache0, failed0, blob >>

\* the upload that leaves the blob alone when a backup of the same key that
\* was dispatched later has already been written
upload_blob_sequenced(i, ok) ==
    /\ i \in DOMAIN tasks
    /\ tasks[i].st = "uploading"
    /\ IF ok
       THEN /\ blob' = IF \E j \in DOMAIN tasks :
                              /\ j > i
                              /\ tasks[j].asset_id = tasks[i].asset_id
                              /\ tasks[j].st = "done"
                       THEN blob
                       ELSE Put(blob, BlobName(tasks[i].asset_id), tasks[i].data)
            /\ tasks' = [tasks EXCEPT ![i].st = "done", ![i].data = NoFrame]
       ELSE /\ blob' = blob
            /\ tasks' = [tasks EXCEPT ![i].st = "failed", ![i].data = NoFrame]
    /\ UNCHANGED << dispatched, cache, asset_locks, locks, cache_lock, loop, pc, reqvars,
                    lock, needs_fetch, fetch_error, fetched_df, adapter_calls,
                    status, result, cache0, failed0 >>

\* the upload whose failure handler discards the key's cache entry
upload_blob_evicting(i, ok) ==
    /\ i \in DOMAIN tasks
    /\ tasks[i].st = "uploading"
    /\ IF ok
       THEN /\ blob' = Put(blob, BlobName(tasks[i].asset_id), tasks[i].data)
            /\ tasks' = [tasks EXCEPT ![i].st = "done", ![i].data = NoFrame]
            /\ cache' = cache
       ELSE /\ blob' = blob
            /\ tasks' = [tasks EXCEPT ![i].st = "failed", ![i].data = NoFrame]
            /\ cache' = [k \in DOMAIN cache \ {tasks[i].asset_id} |-> cache[k]]
    /\ UNCHANGED << dispatched, asset_locks, locks, cache_lock, loop, pc, reqvars,
                    lock, needs_fetch, fetch_error, fetched_df, adapter_calls,
                    status, result, cache0, failed0 >>

\* lines 93-99: blob_client.upload_blob(compressed_data, overwrite=True) in
\* its thread: the blob is written, or the upload raises
upload_blob(i, ok) ==
    /\ i \in DOMAIN tasks
    /\ tasks[i].st = "uploading"
    /\ IF ok
       THEN /\ blob' = Put(blob, BlobName(tasks[i].asset_id), tasks[i].data)
            /\ tasks' = [tasks EXCEPT ![i].st = "done", ![i].data = NoFrame]
       ELSE /\ blob' = blob
            /\ tasks' = [tasks EXCEPT ![i].st = "failed", ![i].data = NoFrame]
    /\ UNCHANGED << dispatched, cache, asset_locks, locks, cache_lock, loop, pc, reqvars,
                    lock, needs_fetch, fetch_error, fetched_df, adapter_calls,
                    status, result, cache0, failed0 >>

\* the steps every specification shares
Common ==
    \/ \E r \in Reqs, id \in AssetIds, sd \in DateStrings, ed \in DateStrings :
          Arrive(r, id, sd, ed)
    \/ \E r \in Reqs : get_data(r)
    \/ \E r \in Reqs : enter_cache_lock(r)
    \/ \E r \in Reqs : get_or_create_lock(r)
    \/ \E r \in Reqs : acquire_lock(r)
    \/ \E r \in Reqs : check_cache(r)
    \/ \E r \in Reqs : \E h \in ProviderResults(start_dt(r), end_dt(r)) :
          adapter_returns(r, h)
    \/ \E r \in Reqs : update_cache(r)
    \/ \E r \in Reqs : slice_cache(r)
    \/ \E r \in Reqs : release_lock(r)
    \/ \E i \in 1..NumRequests, ok \in BOOLEAN : backup_to_azure(i, ok)
    \/ \E i \in 1..NumRequests, ok \in BOOLEAN : upload_blob(i, ok)

\* The program: the adapters call the provider libraries synchronously, so
\* no coroutine ever waits for a key lock and lock_granted has no state to
\* act in.
Next ==
    \/ Common
    \/ \E r \in Reqs : fetch(r)

Spec == Init /\ [][Next]_vars

\* The same program with the adapter call as a suspension point: every
\* interleaving of get_data coroutines that the awaits of lines 130-150
\* allow.  Its behaviours include those of Spec with the blocking call
\* seen as one step.
NextAwait ==
    \/ Common
    \/ \E r \in Reqs : fetch_suspending(r)
    \/ \E r \in Reqs : lock_granted(r)

SpecAwait == Init /\ [][NextAwait]_vars

\* the steps of request r when the adapter call suspends
StepAwait(r) ==
    \/ get_data(r)
    \/ enter_cache_lock(r)
    \/ get_or_create_lock(r)
    \/ acquire_lock(r)
    \/ lock_granted(r)
    \/ check_cache(r)
    \/ fetch_suspending(r)
    \/ \E h \in ProviderResults(start_dt(r), end_dt(r)) : adapter_returns(r, h)
    \/ update_cache(r)
    \/ slice_cache(r)
    \/ release_lock(r)

\* a provider response whose rows all carry the first value
OneValued(h) == \A i \in DOMAIN h.rows : h.rows[i].val = 1

\* NextAwait with the providers answering one-valued frames only: whether a
\* request goes on does not depend on the values of the rows, and progress is
\* checked on this smaller graph
NextAwaitLive ==
    \/ \E r \in Reqs, id \in AssetIds, sd \in DateStrings, ed \in DateStrings :
          Arrive(r, id, sd, ed)
    \/ \E r \in Reqs : get_data(r)
    \/ \E r \in Reqs : enter_cache_lock(r)
    \/ \E r \in Reqs : get_or_create_lock(r)
    \/ \E r \in Reqs : acquire_lock(r)
    \/ \E r \in Reqs : lock_granted(r)
    \/ \E r \in Reqs : check_cache(r)
    \/ \E r \in Reqs : fetch_suspending(r)
    \/ \E r \in Reqs :
          \E h \in { x \in ProviderResults(start_dt(r), end_dt(r)) : OneValued(x) } :
              adapter_returns(r, h)
    \/ \E r \in Reqs : update_cache(r)
    \/ \E r \in Reqs : slice_cache(r)
    \/ \E r \in Reqs : release_lock(r)
    \/ \E i \in 1..NumRequests, ok \in BOOLEAN : backup_to_azure(i, ok)
    \/ \E i \in 1..NumRequests, ok \in BOOLEAN : upload_blob(i, ok)

\* The scheduling of the asyncio event loop: ready callbacks run in the order
\* they became ready, so a coroutine that can go on is not passed over for
\* ever; and every provider call returns (adapter_returns is among the steps)
FairSpecAwait ==
    Init /\ [][NextAwaitLive]_vars /\ \A r \in Reqs : WF_vars(StepAwait(r))

\* ------------------------------------------------------------ properties
\* the positions of get_data inside `async with lock` (lines 133-171)
InLock(r) == pc[r] \in {"check", "fetch", "fetching", "merge", "slice", "exit"}

\* C1: two requests for the same asset id are never both inside the
\* `async with lock` section, under every interleaving the awaits allow.
C1_MutualExclusion ==
    \A a \in Reqs, b \in Reqs :
        (a # b /\ asset_id[a] = asset_id[b]) => ~(InLock(a) /\ InLock(b))

\* a request waits for the lock of its key while another request for that
\* key is inside its fetch
C1_Witness ==
    \E a \in Reqs, b \in Reqs :
        /\ a # b /\ asset_id[a] = asset_id[b]
        /\ pc[a] = "fetching" /\ pc[b] = "lock_wait"

StrictlyAscending(df) ==
    \A i \in DOMAIN df, j \in DOMAIN df : i < j => df[i].date < df[j].date

\* C2: every cached frame is strictly ascending by date, with no date twice.
C2_SortInvariant == \A id \in DOMAIN cache : StrictlyAscending(cache[id])

\* the request has merged a fetched frame into an entry that existed
MergedIntoEntry(r) ==
    /\ pc[r] \in {"slice", "exit"}
    /\ adapter_calls[r] # << >>
    /\ fetch_error[r] = ""
    /\ asset_id[r] \in DOMAIN cache0[r]

\* C3: a merge into an existing entry never raises the entry's earliest date
\* and never lowers its latest date.
C3_CoverageMonotone ==
    \A r \in Reqs :
        MergedIntoEntry(r) =>
            LET old == cache0[r][asset_id[r]]
                new == cache[asset_id[r]]
            IN /\ \E i \in DOMAIN new : \A j \in DOMAIN old : new[i].date <= old[j].date
               /\ \E i \in DOMAIN new : \A j \in DOMAIN old : new[i].date >= old[j].date

\* C4: merging into an entry the very frame it was created from leaves the
\* entry as it was, with no date twice.
C4_IdempotentMerge ==
    \A r \in Reqs :
        (MergedIntoEntry(r) /\ cache0[r][asset_id[r]] = fetched_df[r]) =>
            /\ cache[asset_id[r]] = fetched_df[r]
            /\ StrictlyAscending(cache[asset_id[r]])

\* the request range reaches outside what the entry of the key spans, or
\* there is no entry
Uncovered(c, id, s, e) ==
    \/ id \notin DOMAIN c
    \/ \A i \in DOMAIN c[id] : s < c[id][i].date
    \/ \A i \in DOMAIN c[id] : e > c[id][i].date

\* C5: a request invokes an adapter exactly when its key has no entry or its
\* range starts before the earliest or ends after the latest cached date;
\* otherwise it leaves the cache alone and answers from it.
C5_FetchIffUncovered ==
    \A r \in Reqs :
        pc[r] \in {"fetching", "merge", "slice", "exit"} =>
            LET u == Uncovered(cache0[r], asset_id[r], start_dt(r), end_dt(r))
            IN /\ (adapter_calls[r] # << >>) <=> u
               /\ ~u => (cache = cache0[r] /\ dispatched[r] = 0)

\* a request answered from an entry that has a gap inside the range asked
C5_Witness ==
    \E r \in Reqs :
        /\ pc[r] = "exit" /\ adapter_calls[r] = << >>
        /\ \E d \in start_dt(r)..end_dt(r) :
              \A i \in DOMAIN cache[asset_id[r]] : cache[asset_id[r]][i].date # d

\* C6: the 200 response holds exactly the rows of the entry, as the request
\* leaves it, dated within [start, end], in the entry's (ascending) order;
\* the answer is 404 exactly when there is no such row.
C6_SliceCorrect ==
    \A r \in Reqs :
        (pc[r] = "exit" /\ fetch_error[r] = "") =>
            LET df == cache[asset_id[r]]
                P == { i \in DOMAIN df :
                         start_dt(r) <= df[i].date /\ df[i].date <= end_dt(r) }
                n == Cardinality(P)
            IN /\ (status[r] = 404) <=> (P = {})
               /\ (status[r] = 200) <=> (P # {})
               /\ status[r] = 404 => result[r] = NoResult
               /\ status[r] = 200 =>
                     /\ Len(result[r].index) = n
                     /\ Len(result[r].data) = n
                     /\ \A j \in 1..n :
                           /\ result[r].index[j] = df[NthOf(P, j)].date
                           /\ result[r].data[j] = <<df[NthOf(P, j)].val>>
                     /\ \A i \in 1..n, j \in 1..n :
                           i < j => result[r].index[i] <= result[r].index[j]

\* a 200 response, after a merge by the request, that leaves out a row of
\* the entry
C6_Witness ==
    \E r \in Reqs :
        /\ pc[r] = "exit" /\ status[r] = 200 /\ adapter_calls[r] # << >>
        /\ Len(result[r].index) < Len(cache[asset_id[r]])

\* C7: when the adapter raises, the cache is what it was when the request
\* came in and the request has created no backup task.
C7_FailedFetchKeepsCache ==
    \A r \in Reqs :
        (pc[r] = "exit" /\ fetch_error[r] # "") =>
            /\ cache = cache0[r]
            /\ dispatched[r] = 0

\* the adapter has raised for a key that has an entry
C7_Witness ==
    \E r \in Reqs :
        /\ pc[r] = "exit" /\ fetch_error[r] = "no data found"
        /\ asset_id[r] \in DOMAIN cache

\* C8: a request answered with an error (400, 404 or the adapter's error)
\* ends with the cache as it was when the request came in.
C8_ErrorKeepsCache ==
    [][ \A r \in Reqs :
          (pc[r] # "done" /\ pc'[r] = "done" /\ status'[r] # 200) =>
              cache' = IF pc[r] = "arrived" THEN cache ELSE cache0[r] ]_vars

\* C9: a locked key lock always has its holder inside `async with lock`, and
\* a request that has ended holds none.
C9_NoAbandonedLock ==
    /\ \A l \in DOMAIN locks :
          locks[l].locked => \E r \in Reqs : InLock(r) /\ lock[r] = l
    /\ \A r \in Reqs : pc[r] = "done" => lock[r] = 0

\* a request holds the lock of a key after an earlier request for that key
\* ended with the adapter's error
C9_Witness ==
    \E a \in Reqs, b \in Reqs :
        /\ pc[a] = "done" /\ status[a] = 500
        /\ asset_id[b] = asset_id[a] /\ pc[b] = "check"

\* the steps of request r
Step(r) ==
    \/ get_data(r)
    \/ enter_cache_lock(r)
    \/ get_or_create_lock(r)
    \/ acquire_lock(r)
    \/ lock_granted(r)
    \/ check_cache(r)
    \/ fetch(r)
    \/ \E h \in ProviderResults(start_dt(r), end_dt(r)) : adapter_returns(r, h)
    \/ update_cache(r)
    \/ slice_cache(r)
    \/ release_lock(r)

\* C10: while a request is inside its upstream fetch, a request for another
\* key that has come in or is under way can take its next step.
C10_KeyIndependence ==
    \A a \in Reqs, b \in Reqs :
        ( /\ a # b /\ asset_id[a] # asset_id[b]
          /\ pc[a] = "fetching"
          /\ pc[b] \notin {"init", "done"} ) => ENABLED Step(b)

\* C11: a request is answered 400 exactly when a date does not parse or the
\* start is after the end (equal dates pass); the step that rejects it leaves
\* the lock registry, the locks, the cache and the backup tasks as they were
\* and calls no adapter.
C11_InvalidRangeRejected ==
    [][ \A r \in Reqs :
          (pc[r] = "arrived" /\ pc'[r] # "arrived") =>
              LET bad == \/ start_date[r] \notin Dates
                         \/ end_date[r] \notin Dates
                         \/ start_date[r] > end_date[r]
              IN /\ bad <=> (status'[r] = 400 /\ pc'[r] = "done")
                 /\ ~bad => (status'[r] = 0 /\ pc'[r] = "get_lock")
                 /\ bad => /\ asset_locks' = asset_locks
                           /\ locks' = locks
                           /\ cache_lock' = cache_lock
                           /\ cache' = cache
                           /\ tasks' = tasks
                           /\ blob' = blob
                           /\ adapter_calls' = adapter_calls ]_vars

\* a request was rejected for a key that has neither a lock nor an entry,
\* and a request with equal dates was let through
C11_Witness ==
    \E r \in Reqs, q \in Reqs :
        /\ pc[r] = "done" /\ status[r] = 400
        /\ asset_id[r] \notin DOMAIN asset_locks
        /\ asset_id[r] \notin DOMAIN cache
        /\ pc[q] = "get_lock" /\ start_date[q] = end_date[q]

\* C12: the step of a request that assigns its key's cache entry also
\* creates exactly one backup task, which carries the entry just stored, while
\* the request still holds the key lock; and a request that dispatched a
\* backup releases the lock and returns while that task has not even started.
C12_BackupAfterMutation ==
    [][ /\ \A r \in Reqs :
            (cache' # cache \/ (pc[r] = "merge" /\ pc'[r] # "merge")) =>
                \E h \in Reqs :
                    /\ pc[h] = "merge" /\ InLock(h)'
                    /\ locks'[lock'[h]].locked
                    /\ \A k \in DOMAIN cache' \ {asset_id[h]} :
                          k \in DOMAIN cache /\ cache'[k] = cache[k]
                    /\ tasks' = Append(tasks, [asset_id |-> asset_id[h],
                                               data |-> cache'[asset_id[h]],
                                               st |-> "created"])
                    /\ dispatched'[h] = 1
        /\ \A r \in Reqs :
            (pc[r] = "exit" /\ pc'[r] = "done" /\ dispatched[r] = 1) =>
                /\ tasks # << >>
                /\ tasks[Len(tasks)].asset_id = asset_id[r]
                /\ tasks[Len(tasks)].st = "created" ]_vars

\* a request merged into an entry that already held rows, answered 200 and is
\* about to return while the backup it dispatched is still waiting to run
C12_Witness ==
    \E r \in Reqs :
        /\ pc[r] = "exit" /\ status[r] = 200 /\ dispatched[r] = 1
        /\ asset_id[r] \in DOMAIN cache0[r]
        /\ cache[asset_id[r]] # cache0[r][asset_id[r]]
        /\ tasks[Len(tasks)] = [asset_id |-> asset_id[r],
                                data |-> cache[asset_id[r]],
                                st |-> "created"]

\* C13: a step in which a backup stage ends, well or badly (serialising and
\* compressing, or uploading), changes no request's status, result or
\* position, no lock and no cache entry: what a failed backup leaves behind
\* differs from what a successful one leaves only in the task and the blob.
C13_BackupFailureIsolated ==
    [][ (\E i \in DOMAIN tasks : tasks'[i].st # tasks[i].st) =>
            /\ cache' = cache
            /\ status' = status
            /\ result' = result
            /\ pc' = pc
            /\ locks' = locks
            /\ asset_locks' = asset_locks
            /\ Len(tasks') = Len(tasks) ]_vars

\* a backup has failed, the request that dispatched it was answered 200 and
\* the cache holds the key's entry
C13_Witness ==
    \E i \in DOMAIN tasks, r \in Reqs :
        /\ tasks[i].st = "failed"
        /\ Len(tasks) = 1
        /\ pc[r] = "done" /\ status[r] = 200
        /\ asset_id[r] = tasks[i].asset_id
        /\ asset_id[r] \in DOMAIN cache
        /\ cache[asset_id[r]] # NoFrame

\* C14: a request that entered get_data when the latest backup of its key
\* had failed, and that is answered 200, has dispatched a new backup carrying
\* the key's whole current entry.
C14_NextRequestBacksUp ==
    \A r \in Reqs :
        (pc[r] = "exit" /\ status[r] = 200 /\ asset_id[r] \in failed0[r]) =>
            /\ dispatched[r] = 1
            /\ tasks[Len(tasks)] = [asset_id |-> asset_id[r],
                                    data |-> cache[asset_id[r]],
                                    st |-> "created"]

\* C15: a request whose adapter raised (no rows, or the provider call
\* failed) ends with status 404, the status of an empty slice, and no other.
C15_UpstreamErrorIs404 ==
    \A r \in Reqs :
        (pc[r] = "exit" /\ fetch_error[r] # "") => status[r] = 404

\* C16: a request calls no adapter unless it needs a fetch, and one that
\* needs a fetch calls exactly one adapter exactly once: fetch_fred when its
\* key begins with the two characters M_, fetch_yahoo_finance otherwise,
\* whatever the dates and whatever the cache holds.
C16_OneAdapterByPrefix ==
    \A r \in Reqs :
        LET id == asset_id[r]
            expected == IF Len(id) >= 2 /\ SubSeq(id, 1, 2) = << "M", "_" >>
                        THEN "fetch_fred"
                        ELSE "fetch_yahoo_finance"
        IN /\ Len(adapter_calls[r]) <= 1
           /\ (pc[r] \in {"fetching", "merge", "slice", "exit"} /\ needs_fetch[r])
                 => adapter_calls[r] = << expected >>
           /\ ~needs_fetch[r] => adapter_calls[r] = << >>

\* a key that begins with M but not with M_ went to the instrument adapter
\* while the cache already held an entry for it
C16_Witness ==
    \E r \in Reqs :
        /\ pc[r] = "exit"
        /\ asset_id[r][1] = "M" /\ ~is_macro_metric(asset_id[r])
        /\ asset_id[r] \in DOMAIN cache0[r]
        /\ adapter_calls[r] = << "fetch_yahoo_finance" >>

\* C17: no step removes a key from the lock registry or gives a key another
\* lock; the registry never holds more locks than keys (every lock object ever
\* created is the one lock of one key), distinct keys have distinct locks, and
\* the lock a request obtained is the registry's lock for its key, so requests
\* for one key hold the same lock.
C17_OneLockPerKey ==
    [][ /\ \A k \in DOMAIN asset_locks :
              k \in DOMAIN asset_locks' /\ asset_locks'[k] = asset_locks[k]
        /\ Len(locks') = Cardinality(DOMAIN asset_locks')
        /\ \A k1 \in DOMAIN asset_locks', k2 \in DOMAIN asset_locks' :
              asset_locks'[k1] = asset_locks'[k2] => k1 = k2
        /\ \A r \in Reqs :
              lock'[r] # 0 =>
                  /\ asset_id'[r] \in DOMAIN asset_locks'
                  /\ lock'[r] = asset_locks'[asset_id'[r]]
        /\ \A a \in Reqs, b \in Reqs :
              (lock'[a] # 0 /\ lock'[b] # 0 /\ asset_id'[a] = asset_id'[b])
                  => lock'[a] = lock'[b] ]_vars

\* two requests for one key have both obtained their lock, one of them is
\* inside the locked section and the other waits, and the registry holds that
\* one lock
C17_Witness ==
    \E a \in Reqs, b \in Reqs :
        /\ a # b /\ asset_id[a] = asset_id[b]
        /\ lock[a] # 0 /\ lock[a] = lock[b]
        /\ InLock(a) /\ pc[b] = "lock_wait"
        /\ Cardinality(DOMAIN asset_locks) = 1

\* C18: a step that changes (or creates) the cache entry of a key is a step
\* of a request for that key that is inside the locked section with the key's
\* lock held, the only request for the key in there; steps of other requests
\* and steps of backups leave the entry alone.
C18_CacheChangedByHolderOnly ==
    [][ \A k \in AssetIds :
          (\/ (k \in DOMAIN cache) # (k \in DOMAIN cache')
           \/ (k \in DOMAIN cache /\ k \in DOMAIN cache' /\ cache'[k] # cache[k]))
          => \E h \in Reqs :
                /\ asset_id[h] = k
                /\ InLock(h) /\ pc'[h] # pc[h]
                /\ lock[h] = asset_locks[k] /\ locks[lock[h]].locked
                /\ \A q \in Reqs \ {h} :
                      /\ pc'[q] = pc[q]
                      /\ asset_id[q] = k => ~InLock(q)
                /\ \A i \in DOMAIN tasks : tasks'[i] = tasks[i] ]_vars

\* the holder of a key's lock has just stored the key's entry while another
\* request for the key waits for the lock
C18_Witness ==
    \E h \in Reqs, q \in Reqs :
        /\ pc[h] = "slice" /\ dispatched[h] = 1
        /\ pc[q] = "lock_wait" /\ asset_id[q] = asset_id[h]
        /\ asset_id[h] \notin DOMAIN cache0[h]
        /\ asset_id[h] \in DOMAIN cache

\* C19: nothing orders the uploads of one key: an upload in flight can
\* complete whatever the state of the other backups of its key, and the step
\* in which it completes leaves its own payload under the key's blob name,
\* whether or not a backup dispatched later has already been written.
C19_LastWriterWins ==
    [][ \A i \in DOMAIN tasks :
          /\ tasks[i].st = "uploading" => ENABLED upload_blob(i, TRUE)
          /\ (tasks[i].st = "uploading" /\ tasks'[i].st = "done") =>
                /\ BlobName(tasks[i].asset_id) \in DOMAIN blob'
                /\ blob'[BlobName(tasks[i].asset_id)] = tasks[i].data ]_vars

\* two requests for one key have each dispatched a backup, both uploads are
\* complete, and the blob is not the backup of the entry the cache holds (the
\* second snapshot): the first-dispatched snapshot was written last
C19_Witness ==
    /\ Len(tasks) = 2
    /\ tasks[1].asset_id = tasks[2].asset_id
    /\ tasks[1].st = "done" /\ tasks[2].st = "done"
    /\ \A r \in Reqs : pc[r] = "done"
    /\ blob[BlobName(tasks[1].asset_id)] # Gzip(ToCsv(cache[tasks[1].asset_id]))

\* C20: under fair scheduling, with every fetch returning, every request
\* that has come in is eventually answered and every request that waits for a
\* key lock eventually gets it.
C20_Termination ==
    \A r \in Reqs :
        /\ (pc[r] = "arrived") ~> (pc[r] = "done")
        /\ (pc[r] = "lock_wait") ~> (pc[r] = "check")

\* both requests are answered and one of them had to wait for the key lock
\* held by the other, which is free again
C20_Witness ==
    /\ \A r \in Reqs : pc[r] = "done"
    /\ \E k \in DOMAIN asset_locks :
          /\ ~locks[asset_locks[k]].locked
          /\ locks[asset_locks[k]].waiters = << >>
          /\ \A r \in Reqs : asset_id[r] = k /\ status[r] = 200

=============================================================================
